---- MODULE Spec2Model ----
(***************************************************************************)
(* A model of the Token Tracking Database Manager (src/streamlit_app.py):  *)
(* the resolution of the database path, the connection provider with its   *)
(* session-scoped retry budget, the tabular reader and the mutator with    *)
(* the manual cascade delete, and the validation of the pricing manifest.  *)
(*                                                                         *)
(* Text (connection strings, paths) is a sequence of one-character         *)
(* strings, so that prefix tests and slices are computed as Python does.   *)
(***************************************************************************)
EXTENDS Integers, Sequences, FiniteSets, TLC

VARIABLES
    \* ---- get_database_path
    environ,        \* os.environ, restricted to DATABASE_URL: a function on the set keys
    existing,       \* the candidate database files that exist on disk
    path_pc,        \* "call" before get_database_path ran, "returned" after
    db_path,        \* the value get_database_path returned
    probed,         \* the paths handed to os.path.exists / Path.exists, in order
    \* ---- the script run of one browser session, up to the page body
    session_state,  \* st.session_state: a function on the keys set so far
    now,            \* time.time(), in seconds
    db_file,        \* os.path.exists(db_path)
    db_dir,         \* os.path.exists(os.path.dirname(db_path))
    db_tables,      \* the number of tables in the database file
    run_pc,         \* "start": a run is due; "page": get_db_connection returned; "idle"
    trigger,        \* the widget whose use started the run, "load" for a first load or st.rerun()
    conn,           \* what get_db_connection returned in this run: "None" or "conn"
    open_conns,     \* connections opened by sqlite3.connect and not closed by the code
    ui,             \* the elements rendered in this run, each <<level, id>>
    slept,          \* the seconds this run spent in time.sleep
    \* ---- the database and the page handlers of the sessions that use it
    db,             \* the committed tables: groups, assignments, settings
    pending,        \* per session: the uncommitted image of its connection, {} when none
    pc,             \* per session: the statement its handler issues next, "idle" between runs
    act,            \* per session: the handler of the current or last run
    sel,            \* per session: the row and the input the handler works on
    df,             \* per session: what get_table_data returned to the handler
    res1,           \* per session: assignments_result of the cascade delete
    res,            \* per session: result, what the handler's last execute_query returned
    msgs,           \* per session: the messages the run showed, in order
    \* ---- the manifest editor of the Model Management page
    token_parity,   \* the content of token_parity.json, as JSON tokens
    edited_content, \* the content of the JSON Content text area
    manifest_msgs,  \* the messages the run showed, each <<level, id, index, field>>
    \* ---- run_token_tracking_command and the handlers that call it
    backend_dirs_found, \* the backend directories that exist
    cwd,            \* the working directory of the process
    child,          \* what became of the last subprocess.run
    child_env,      \* DATABASE_URL in the environment handed to the child, <<>> before a call
    returned,       \* what the last call of run_token_tracking_command returned or raised
    caller,         \* the handler that made the last call
    cmd_msgs,       \* the messages that handler showed, each <<level, id>>
    \* ---- the Create New token_parity.json section of the Model Management page
    manifest_files, \* per backend directory: its token-tracking/token_parity.json
    new_json_content, \* the content of the text area with key new_json_editor
    create_button,  \* whether the last run rendered the Create File button
    create_msgs     \* the messages the run showed, each <<level, id>>

pathVars == <<environ, existing, path_pc, db_path, probed>>

connVars == <<session_state, now, db_file, db_dir, db_tables, run_pc, trigger, conn,
              open_conns, ui, slept>>

dbVars == <<db, pending, pc, act, sel, df, res1, res, msgs>>

manifestVars == <<token_parity, edited_content, manifest_msgs>>

cmdVars == <<backend_dirs_found, cwd, child, child_env, returned, caller, cmd_msgs>>

createVars == <<manifest_files, new_json_content, create_button, create_msgs>>

vars == <<pathVars, connVars, dbVars, manifestVars, cmdVars, createVars>>

\* what the actions of one part leave alone
besidesPath == <<connVars, dbVars, manifestVars, cmdVars, createVars>>

besidesConn == <<pathVars, dbVars, manifestVars, cmdVars, createVars>>

besidesDb == <<pathVars, connVars, manifestVars, cmdVars, createVars>>

besidesManifest == <<pathVars, connVars, dbVars, cmdVars, createVars>>

besidesCmd == <<pathVars, connVars, dbVars, manifestVars, createVars>>

besidesCreate == <<pathVars, connVars, dbVars, manifestVars, cmdVars>>

(***************************************************************************)
(* Text helpers: str.startswith and the slice s[n:].                       *)
(***************************************************************************)
StartsWith(s, p) == Len(s) >= Len(p) /\ SubSeq(s, 1, Len(p)) = p

SliceFrom(s, n) == SubSeq(s, n + 1, Len(s))

Slash == <<"/">>

SqlitePrefix == <<"s", "q", "l", "i", "t", "e", ":", "/", "/", "/">>

SqlcipherPrefix == <<"s", "q", "l", "i", "t", "e", "+", "s", "q", "l", "c", "i", "p", "h", "e", "r", ":", "/", "/", "/">>

DockerPath1 == <<"/", "a", "p", "p", "/", "b", "a", "c", "k", "e", "n", "d", "/", "d", "a", "t", "a", "/", "w", "e", "b", "u", "i", ".", "d", "b">>

DockerPath2 == <<"/", "a", "p", "p", "/", "d", "a", "t", "a", "/", "w", "e", "b", "u", "i", ".", "d", "b">>

\* Path(__file__).parent / "backend" / "data" / "webui.db", the script living in /src
LocalPath == <<"/", "s", "r", "c", "/", "b", "a", "c", "k", "e", "n", "d", "/", "d", "a", "t", "a", "/", "w", "e", "b", "u", "i", ".", "d", "b">>

docker_paths == <<DockerPath1, DockerPath2>>

\* The slice offsets of the code: db_url[10:] and db_url[20:]
SqliteSkip == 10

SqlcipherSkip == 20

\* os.getenv("DATABASE_URL") as a condition: set and not empty
HasDatabaseUrl(env) == "DATABASE_URL" \in DOMAIN env /\ env["DATABASE_URL"] # <<>>

NormalizeNoSlash(path) == path

\* lines 29-30 and 34-35: a single "/" in front unless one is there
Normalize(path) == IF StartsWith(path, Slash) THEN path ELSE Slash \o path

\* The URL branch (lines 25-36): <<TRUE, path>> when it returns, <<FALSE, <<>>>> when
\* the code falls through to the candidate files.
UrlBranch(env) ==
    IF ~HasDatabaseUrl(env) THEN <<FALSE, <<>>>>
    ELSE LET db_url == env["DATABASE_URL"] IN
         IF StartsWith(db_url, SqlitePrefix)
         THEN <<TRUE, Normalize(SliceFrom(db_url, SqliteSkip))>>
         ELSE IF StartsWith(db_url, SqlcipherPrefix)
         THEN <<TRUE, Normalize(SliceFrom(db_url, SqlcipherSkip))>>
         ELSE <<FALSE, <<>>>>

\* The candidate files (lines 38-54): <<path returned, paths probed in order>>
Candidates(files) ==
    IF docker_paths[1] \in files THEN <<docker_paths[1], <<docker_paths[1]>>>>
    ELSE IF docker_paths[2] \in files
    THEN <<docker_paths[2], <<docker_paths[1], docker_paths[2]>>>>
    ELSE IF LocalPath \in files
    THEN <<LocalPath, <<docker_paths[1], docker_paths[2], LocalPath>>>>
    ELSE <<DockerPath1, <<docker_paths[1], docker_paths[2], LocalPath>>>>

\* get_database_path: <<path, probes>>
get_database_path(env, files) ==
    LET u == UrlBranch(env) IN
    IF u[1] THEN <<u[2], <<>>>> ELSE Candidates(files)

(***************************************************************************)
(* The connection strings the path resolution is run on.                   *)
(***************************************************************************)
MaxTail == 3

TailChars == {"/", "a", "."}

RECURSIVE SeqsUpTo(_, _)
SeqsUpTo(S, n) ==
    IF n = 0 THEN {<<>>}
    ELSE LET shorter == SeqsUpTo(S, n - 1) IN
         shorter \cup {Append(t, c) : t \in shorter, c \in S}

ExampleUrlA == <<"s", "q", "l", "i", "t", "e", ":", "/", "/", "/", "a", "/", "b", ".", "d", "b">>

ExampleUrlX == <<"s", "q", "l", "i", "t", "e", "+", "s", "q", "l", "c", "i", "p", "h", "e", "r", ":", "/", "/", "/", "x", "/", "y", ".", "d", "b">>

ExamplePathA == <<"/", "a", "/", "b", ".", "d", "b">>

ExamplePathX == <<"/", "x", "/", "y", ".", "d", "b">>

PostgresUrl == <<"p", "o", "s", "t", "g", "r", "e", "s", "q", "l", ":", "/", "/", "h", "/", "d">>

\* "sqlite://": one slash short of the prefix
ShortUrl == <<"s", "q", "l", "i", "t", "e", ":", "/", "/">>

Tails == SeqsUpTo(TailChars, MaxTail)

Urls ==
    {SqlitePrefix \o t : t \in Tails} \cup {SqlcipherPrefix \o t : t \in Tails}
        \cup {ExampleUrlA, ExampleUrlX, PostgresUrl, ShortUrl, <<>>}

NoEnv == [k \in {} |-> <<>>]

Environs == {NoEnv} \cup {[k \in {"DATABASE_URL"} |-> u] : u \in Urls}

ConnParked ==
    /\ session_state = [k \in {} |-> 0]
    /\ now = 0
    /\ db_file = FALSE
    /\ db_dir = FALSE
    /\ db_tables = 0
    /\ run_pc = "idle"
    /\ trigger = [w |-> "load", pw |-> ""]
    /\ conn = "None"
    /\ open_conns = 0
    /\ ui = {}
    /\ slept = 0

Sessions == {"s1", "s2"}

PyNone == [t |-> "None"]

\* a local variable the run has not assigned
Unset == [t |-> "unset"]

NoSelection == [id |-> "", val |-> "", limit |-> 0]

DbParked ==
    /\ db = [groups |-> {}, assignments |-> {}, settings |-> <<>>]
    /\ pending = [s \in Sessions |-> {}]
    /\ pc = [s \in Sessions |-> "idle"]
    /\ act = [s \in Sessions |-> "none"]
    /\ sel = [s \in Sessions |-> NoSelection]
    /\ df = [s \in Sessions |-> Unset]
    /\ res1 = [s \in Sessions |-> Unset]
    /\ res = [s \in Sessions |-> Unset]
    /\ msgs = [s \in Sessions |-> <<>>]

ManifestParked ==
    /\ token_parity = <<>>
    /\ edited_content = <<>>
    /\ manifest_msgs = <<>>

\* no file in a backend directory
NoFile == [exists |-> FALSE, content |-> <<>>]

CreateParked ==
    /\ manifest_files = <<NoFile, NoFile>>
    /\ new_json_content = <<>>
    /\ create_button = FALSE
    /\ create_msgs = <<>>

NoChild == [kind |-> "none", returncode |-> 0, stdout |-> "", stderr |-> ""]

NotCalled == [raised |-> FALSE, stdout |-> "", stderr |-> "", returncode |-> 0]

CmdParked ==
    /\ backend_dirs_found = {}
    /\ cwd = "/src"
    /\ child = NoChild
    /\ child_env = <<>>
    /\ returned = NotCalled
    /\ caller = "none"
    /\ cmd_msgs = <<>>

InitPath ==
    /\ environ \in Environs
    /\ existing \in SUBSET {DockerPath1, DockerPath2, LocalPath}
    /\ path_pc = "call"
    /\ db_path = <<>>
    /\ probed = <<>>
    /\ ConnParked
    /\ DbParked
    /\ ManifestParked
    /\ CmdParked
    /\ CreateParked

GetDatabasePath ==
    /\ path_pc = "call"
    /\ LET r == get_database_path(environ, existing) IN
       /\ db_path' = r[1]
       /\ probed' = r[2]
    /\ path_pc' = "returned"
    /\ UNCHANGED <<environ, existing>>
    /\ UNCHANGED besidesPath

\* the operator changes the configuration and the function is called again
Reconfigure ==
    /\ path_pc = "returned"
    /\ environ' \in Environs
    /\ existing' \in SUBSET {DockerPath1, DockerPath2, LocalPath}
    /\ path_pc' = "call"
    /\ db_path' = <<>>
    /\ probed' = <<>>
    /\ UNCHANGED besidesPath

NextPath == GetDatabasePath \/ Reconfigure

(***************************************************************************)
(* The script run of one browser session: check_password, then             *)
(* get_db_connection, then the page body and the close at the end of the   *)
(* script.  st.session_state outlives the runs; everything else is per run.*)
(***************************************************************************)
max_retries == 15

retry_delay == 2

DefaultPassword == "admin123"

\* passwords a user may type, and the one the environment may configure
Passwords == {"admin123", "s3cret", "guess"}

\* the budget of the model: the clock value from which an idle session is left alone,
\* the tables an initialised database holds at most, the connections left open at most
StartTime == 2

MaxTime == 36

MaxTables == 2

MaxOpen == 2

EmptySession == [k \in {} |-> 0]

SsSet(ss, k, v) == [x \in DOMAIN ss \cup {k} |-> IF x = k THEN v ELSE ss[x]]

\* if "k" not in st.session_state: st.session_state.k = v
SsDefault(ss, k, v) == IF k \in DOMAIN ss THEN ss ELSE SsSet(ss, k, v)

Load == [w |-> "load", pw |-> ""]

Click(widget) == [w |-> widget, pw |-> ""]

\* os.getenv("STREAMLIT_PASSWORD", "admin123")
correct_password(env) ==
    IF "STREAMLIT_PASSWORD" \in DOMAIN env THEN env["STREAMLIT_PASSWORD"] ELSE DefaultPassword

\* What a call leaves behind: the session state, the clock, the file system, the value
\* returned ("None" also when st.rerun() ends the run), how the call ended, what it
\* rendered, the time slept, and the connections it opened and did not close.
Outcome(ss, t, file, dir, ret, exit, shown, sl, opened) ==
    [ss |-> ss, now |-> t, file |-> file, dir |-> dir, ret |-> ret, exit |-> exit,
     ui |-> shown, slept |-> sl, opened |-> opened]

\* lines 150-164 without the conn.close() of line 152
EmptyDatabaseNoClose(ss, t, clicked) ==
    Outcome(ss, t, TRUE, TRUE, "None",
            IF clicked = "check_again" THEN "rerun" ELSE "return",
            {<<"warning", "db_empty">>, <<"info", "initializing">>, <<"info", "health">>,
             <<"button", "check_again">>}, 0, 1)

\* lines 150-164: the file holds no table; the connection is closed, a warning shown
EmptyDatabase(ss, t, clicked) ==
    Outcome(ss, t, TRUE, TRUE, "None",
            IF clicked = "check_again" THEN "rerun" ELSE "return",
            {<<"warning", "db_empty">>, <<"info", "initializing">>, <<"info", "health">>,
             <<"button", "check_again">>}, 0, 0)

\* lines 138-174: the counter is reset, then sqlite3.connect (which creates a missing
\* file) and the probe for a table.  fault: "connect" when sqlite3.connect raises,
\* "execute" when the probe raises on the open connection, "none" otherwise.
Connect(ss, t, file, tables, clicked, fault) ==
    LET ss1 == SsSet(ss, "db_retry_count", 0) IN
    IF fault = "connect"
    THEN Outcome(ss1, t, file, TRUE, "None", "return",
                 {<<"error", "sqlite_error">>, <<"info", "db_path">>}, 0, 0)
    ELSE IF fault = "execute"
    THEN Outcome(ss1, t, TRUE, TRUE, "None", "return",
                 {<<"error", "sqlite_error">>, <<"info", "db_path">>}, 0, 1)
    ELSE IF ~(file /\ tables > 0)
    THEN EmptyDatabase(ss1, t, clicked)
    ELSE Outcome(ss1, t, TRUE, TRUE, "conn", "return", {}, 0, 1)

\* lines 112-136 with the counter not compared with max_retries
MissingFileNoLimit(ss, t, clicked) ==
    LET ss2 == SsSet(ss, "db_last_check", t) IN
    Outcome(SsSet(ss2, "db_retry_count", ss2["db_retry_count"] + 1),
            t + retry_delay, FALSE, TRUE, "None", "rerun",
            {<<"spinner", "waiting">>}, retry_delay, 0)

\* lines 112-136 with the retry run not counted
MissingFileNoCount(ss, t, clicked) ==
    LET ss2 == SsSet(ss, "db_last_check", t) IN
    Outcome(ss2, t + retry_delay, FALSE, TRUE, "None", "rerun",
            {<<"spinner", "waiting">>}, retry_delay, 0)

\* lines 112-136, the file is missing and the retry delay has passed since the last check
MissingFile(ss, t, clicked) ==
    LET ss2 == SsSet(ss, "db_last_check", t) IN
    IF ss2["db_retry_count"] < max_retries
    THEN Outcome(SsSet(ss2, "db_retry_count", ss2["db_retry_count"] + 1),
                 t + retry_delay, FALSE, TRUE, "None", "rerun",
                 {<<"spinner", "waiting">>}, retry_delay, 0)
    ELSE LET shown == {<<"error", "db_not_found">>, <<"info", "dir_exists">>,
                       <<"info", "dir_path">>, <<"info", "health">>,
                       <<"info", "starting_up">>, <<"button", "retry_db">>}
         IN IF clicked = "retry_db"
            THEN Outcome(SsSet(SsSet(ss2, "db_retry_count", 0), "db_last_check", 0),
                         t, FALSE, TRUE, "None", "rerun", shown, 0, 0)
            ELSE Outcome(ss2, t, FALSE, TRUE, "None", "return", shown, 0, 0)

\* get_db_connection (lines 77-174)
get_db_connection(ss, t, file, dir, tables, clicked, mkdir_ok, fault) ==
    IF ~dir /\ ~mkdir_ok
    THEN Outcome(ss, t, file, dir, "None", "return",
                 {<<"error", "mkdir_failed">>, <<"info", "cwd">>, <<"info", "db_path">>,
                  <<"info", "dir_exists">>}, 0, 0)
    ELSE LET ss1 == SsDefault(SsDefault(ss, "db_retry_count", 0), "db_last_check", 0) IN
         IF ~file /\ t - ss1["db_last_check"] >= retry_delay
         THEN MissingFile(ss1, t, clicked)
         ELSE Connect(ss1, t, file, tables, clicked, fault)

Authenticated(ss) == "authenticated" \in DOMAIN ss /\ ss["authenticated"]

Faults == {"none", "connect", "execute"}

PathParked ==
    /\ existing = {}
    /\ path_pc = "returned"
    /\ db_path = DockerPath1
    /\ probed = <<>>

InitConn ==
    /\ environ \in {NoEnv, [k \in {"STREAMLIT_PASSWORD"} |-> "s3cret"]}
    /\ PathParked
    /\ session_state = EmptySession
    /\ now = StartTime
    /\ db_file \in BOOLEAN
    /\ db_dir \in BOOLEAN
    /\ db_file => db_dir
    /\ db_tables \in 0..MaxTables
    /\ ~db_file => db_tables = 0
    /\ run_pc = "start"
    /\ trigger = Load
    /\ conn = "None"
    /\ open_conns = 0
    /\ ui = {}
    /\ slept = 0
    /\ DbParked
    /\ ManifestParked
    /\ CmdParked
    /\ CreateParked

LoginRunAnyPassword ==
    /\ run_pc = "start"
    /\ ~Authenticated(session_state)
    /\ LET ss0 == SsDefault(session_state, "authenticated", FALSE) IN
       IF trigger.w = "login"
       THEN /\ session_state' = SsSet(ss0, "authenticated", TRUE)
            /\ ui' = {<<"form", "login">>, <<"success", "authenticated">>}
            /\ run_pc' = "start"
       ELSE /\ session_state' = ss0
            /\ ui' = {<<"form", "login">>}
            /\ run_pc' = "idle"
    /\ trigger' = Load
    /\ conn' = "None"
    /\ slept' = 0
    /\ UNCHANGED <<now, db_file, db_dir, db_tables, open_conns>>
    /\ UNCHANGED besidesConn

\* A run of a session that is not authenticated (lines 322-362): the login form, and
\* st.stop() unless the submitted password is the configured one.
LoginRun ==
    /\ run_pc = "start"
    /\ ~Authenticated(session_state)
    /\ LET ss0 == SsDefault(session_state, "authenticated", FALSE) IN
       IF trigger.w = "login" /\ trigger.pw = correct_password(environ)
       THEN /\ session_state' = SsSet(ss0, "authenticated", TRUE)
            /\ ui' = {<<"form", "login">>, <<"success", "authenticated">>}
            /\ run_pc' = "start"
       ELSE /\ session_state' = ss0
            /\ ui' = {<<"form", "login">>} \cup
                     (IF trigger.w = "login" THEN {<<"error", "incorrect_password">>} ELSE {})
            /\ run_pc' = "idle"
    /\ trigger' = Load
    /\ conn' = "None"
    /\ slept' = 0
    /\ UNCHANGED <<now, db_file, db_dir, db_tables, open_conns>>
    /\ UNCHANGED besidesConn

\* A run of an authenticated session up to the return of get_db_connection
\* (lines 361-381)
ConnectRun ==
    /\ run_pc = "start"
    /\ Authenticated(session_state)
    /\ \E mkdir_ok \in BOOLEAN, fault \in Faults :
          LET r == get_db_connection(session_state, now, db_file, db_dir, db_tables,
                                     trigger.w, mkdir_ok, fault)
          IN /\ open_conns + r.opened <= MaxOpen
             /\ session_state' = r.ss
             /\ now' = r.now
             /\ db_file' = r.file
             /\ db_dir' = r.dir
             /\ conn' = r.ret
             /\ open_conns' = open_conns + r.opened
             /\ ui' = {<<"sidebar", "nav">>} \cup r.ui
             /\ slept' = r.slept
             /\ run_pc' = IF r.exit = "rerun" THEN "start" ELSE "page"
             /\ trigger' = IF r.exit = "rerun" THEN Load ELSE trigger
    /\ UNCHANGED db_tables
    /\ UNCHANGED besidesConn

\* The page body and the end of the script (lines 383-1058): without a connection the
\* page reports it and the run ends; with one, the run ends in conn.close(), unless a
\* widget's action succeeded and called st.rerun(), which ends the run on the spot.
PageRun ==
    /\ run_pc = "page"
    /\ \/ /\ conn = "None"
          /\ run_pc' = "idle"
          /\ UNCHANGED open_conns
       \/ /\ conn = "conn"
          /\ run_pc' = "idle"
          /\ open_conns' = open_conns - 1
       \/ /\ conn = "conn"
          /\ trigger.w = "action"
          /\ run_pc' = "start"
          /\ UNCHANGED open_conns
    /\ trigger' = Load
    /\ UNCHANGED <<session_state, now, db_file, db_dir, db_tables, conn, ui, slept>>
    /\ UNCHANGED besidesConn

\* The user uses a widget the last run rendered; the script runs again.
UserAct ==
    /\ run_pc = "idle"
    /\ \/ /\ <<"form", "login">> \in ui
          /\ \E p \in Passwords : trigger' = [w |-> "login", pw |-> p]
       \/ /\ <<"button", "retry_db">> \in ui
          /\ trigger' = Click("retry_db")
       \/ /\ <<"button", "check_again">> \in ui
          /\ trigger' = Click("check_again")
       \/ /\ <<"sidebar", "nav">> \in ui
          /\ trigger' = Click("nav")
       \/ /\ <<"sidebar", "nav">> \in ui
          /\ conn = "conn"
          /\ trigger' = Click("action")
    /\ run_pc' = "start"
    /\ UNCHANGED <<session_state, now, db_file, db_dir, db_tables, conn, open_conns, ui,
                   slept>>
    /\ UNCHANGED besidesConn

\* Time passes while the session is idle.
Tick ==
    /\ run_pc = "idle"
    /\ now < MaxTime
    /\ now' = now + 1
    /\ UNCHANGED <<session_state, db_file, db_dir, db_tables, run_pc, trigger, conn,
                   open_conns, ui, slept>>
    /\ UNCHANGED besidesConn

\* Open WebUI, which owns the database, creates the file ...
FileAppears ==
    /\ ~db_file
    /\ db_file' = TRUE
    /\ db_dir' = TRUE
    /\ UNCHANGED <<session_state, now, db_tables, run_pc, trigger, conn, open_conns, ui,
                   slept>>
    /\ UNCHANGED besidesConn

\* ... and then its schema.
SchemaInit ==
    /\ db_file
    /\ db_tables < MaxTables
    /\ db_tables' = db_tables + 1
    /\ UNCHANGED <<session_state, now, db_file, db_dir, run_pc, trigger, conn,
                   open_conns, ui, slept>>
    /\ UNCHANGED besidesConn

NextConn == LoginRun \/ ConnectRun \/ PageRun \/ UserAct \/ Tick \/ FileAppears \/ SchemaInit

(***************************************************************************)
(* The database and the pages that read and change it.  The sessions share *)
(* the database file; each holds its own connection.  A handler's          *)
(* statements are steps of their own: every execute_query call is one      *)
(* transaction, and another session's transaction may commit between two.  *)
(***************************************************************************)
GroupIds == {"g1", "g2"}

UserIds == {"u1", "u2"}

SettingKeys == {"k1", "k2"}

SettingValues == {"v1", "v2"}

\* a key with a quote in it: "setting_key = 'o'k'" is no SQL, the lookup of line 1015
\* raises for it
QuoteKey == "o'k"

\* the order in which SELECT * yields the rows of the keyed tables
GroupOrder == <<"g1", "g2">>

AssignmentOrder == <<<<"u1", "g1">>, <<"u1", "g2">>, <<"u2", "g1">>, <<"u2", "g2">>>>

\* the settings table holds at most this many rows in the model
MaxSettings == 2

\* get_table_data's default limit, and the limit the pages pass
DefaultLimit == 100

PageLimit == 1000

\* the row limits an operator enters on the Database Tables page (min_value 1)
Limits == {1, DefaultLimit}

TableNames == {"token_tracking_credit_group", "token_tracking_credit_group_user",
               "token_tracking_base_settings"}

PyInt(n) == [t |-> "int", v |-> n]

PyDf(rows) == [t |-> "DataFrame", rows |-> rows]

IsNone(x) == x.t = "None"

\* df is not None and not df.empty
HasRows(x) == x.t = "DataFrame" /\ x.rows # <<>>

\* the rows of a table, in SELECT order
Rows(image, table) ==
    IF table = "token_tracking_credit_group"
    THEN SelectSeq(GroupOrder, LAMBDA g : g \in image.groups)
    ELSE IF table = "token_tracking_credit_group_user"
    THEN SelectSeq(AssignmentOrder, LAMBDA a : a \in image.assignments)
    ELSE image.settings

\* LIMIT n
Take(rows, n) == SubSeq(rows, 1, IF Len(rows) < n THEN Len(rows) ELSE n)

\* What get_table_data leaves: the value returned, and whether st.error was called.
ReadOutcome(value, error) == [value |-> value, error |-> error]

get_table_data_none_if_empty(image, table, limit, where, fails) ==
    LET all == Rows(image, table)
        matching == IF where = "" THEN all ELSE SelectSeq(all, LAMBDA r : r[1] = where)
    IN IF fails THEN ReadOutcome(PyNone, TRUE)
       ELSE IF matching = <<>> THEN ReadOutcome(PyNone, FALSE)
       ELSE ReadOutcome(PyDf(Take(matching, limit)), FALSE)

\* get_table_data (lines 184-195); where is "" or the key of "setting_key = '<key>'";
\* fails: pd.read_sql_query raises
get_table_data(image, table, limit, where, fails) ==
    IF fails THEN ReadOutcome(PyNone, TRUE)
    ELSE LET all == Rows(image, table)
             matching == IF where = "" THEN all
                         ELSE SelectSeq(all, LAMBDA r : r[1] = where)
         IN ReadOutcome(PyDf(Take(matching, limit)), FALSE)

\* the statements the handlers pass to execute_query
DeleteAssignmentsOf(g) == [op |-> "delete_assignments", id |-> g, val |-> ""]

DeleteGroup(g) == [op |-> "delete_group", id |-> g, val |-> ""]

UpdateSetting(k, v) == [op |-> "update_setting", id |-> k, val |-> v]

DeleteSetting(k) == [op |-> "delete_setting", id |-> k, val |-> ""]

InsertSetting(k, v) == [op |-> "insert_setting", id |-> k, val |-> v]

Matched(image, stmt) ==
    IF stmt.op = "delete_assignments" THEN {a \in image.assignments : a[2] = stmt.id}
    ELSE IF stmt.op = "delete_group" THEN image.groups \cap {stmt.id}
    ELSE IF stmt.op \in {"update_setting", "delete_setting"}
    THEN {i \in 1..Len(image.settings) : image.settings[i][1] = stmt.id}
    ELSE {}

AssignmentsLeftNoWhere(rows, g) == {}

\* DELETE FROM token_tracking_credit_group_user WHERE credit_group_id = ? (line 516)
AssignmentsLeft(rows, g) == {a \in rows : a[2] # g}

ExecutedInsertOrIgnore(image, stmt) ==
    IF stmt.op = "delete_assignments"
    THEN [image EXCEPT !.assignments = AssignmentsLeft(image.assignments, stmt.id)]
    ELSE IF stmt.op = "delete_group"
    THEN [image EXCEPT !.groups = image.groups \ {stmt.id}]
    ELSE IF stmt.op = "update_setting"
    THEN [image EXCEPT !.settings =
             [i \in 1..Len(image.settings) |->
                 IF image.settings[i][1] = stmt.id THEN <<stmt.id, stmt.val>>
                 ELSE image.settings[i]]]
    ELSE IF stmt.op = "delete_setting"
    THEN [image EXCEPT !.settings = SelectSeq(image.settings, LAMBDA r : r[1] # stmt.id)]
    ELSE IF \E i \in 1..Len(image.settings) : image.settings[i][1] = stmt.id
    THEN image
    ELSE [image EXCEPT !.settings = Append(image.settings, <<stmt.id, stmt.val>>)]

\* the tables after cursor.execute(stmt)
Executed(image, stmt) ==
    IF stmt.op = "delete_assignments"
    THEN [image EXCEPT !.assignments = AssignmentsLeft(image.assignments, stmt.id)]
    ELSE IF stmt.op = "delete_group"
    THEN [image EXCEPT !.groups = image.groups \ {stmt.id}]
    ELSE IF stmt.op = "update_setting"
    THEN [image EXCEPT !.settings =
             [i \in 1..Len(image.settings) |->
                 IF image.settings[i][1] = stmt.id THEN <<stmt.id, stmt.val>>
                 ELSE image.settings[i]]]
    ELSE IF stmt.op = "delete_setting"
    THEN [image EXCEPT !.settings = SelectSeq(image.settings, LAMBDA r : r[1] # stmt.id)]
    ELSE [image EXCEPT !.settings = Append(image.settings, <<stmt.id, stmt.val>>)]

\* cursor.rowcount
RowCount(image, stmt) ==
    IF stmt.op = "insert_setting" THEN 1 ELSE Cardinality(Matched(image, stmt))

ExecFaults == {"none", "execute", "commit"}

\* What execute_query leaves: the committed tables, the connection's uncommitted
\* image, the value returned, and whether st.error was called.
QueryOutcome(committed, uncommitted, result, error) ==
    [db |-> committed, pending |-> uncommitted, result |-> result, error |-> error]

execute_query_no_commit(committed, uncommitted, stmt, fault) ==
    LET before == IF uncommitted = {} THEN committed ELSE CHOOSE i \in uncommitted : TRUE
        after == Executed(before, stmt)
    IN IF fault \in {"execute", "commit"} THEN QueryOutcome(committed, {}, PyNone, TRUE)
       ELSE QueryOutcome(committed, {after}, PyInt(RowCount(before, stmt)), FALSE)

execute_query_no_rollback(committed, uncommitted, stmt, fault) ==
    LET before == IF uncommitted = {} THEN committed ELSE CHOOSE i \in uncommitted : TRUE
        after == Executed(before, stmt)
    IN IF fault = "execute" THEN QueryOutcome(committed, uncommitted, PyNone, TRUE)
       ELSE IF fault = "commit" THEN QueryOutcome(committed, {after}, PyNone, TRUE)
       ELSE QueryOutcome(after, {}, PyInt(RowCount(before, stmt)), FALSE)

execute_query_none_for_zero(committed, uncommitted, stmt, fault) ==
    LET before == IF uncommitted = {} THEN committed ELSE CHOOSE i \in uncommitted : TRUE
        after == Executed(before, stmt)
    IN IF fault \in {"execute", "commit"} THEN QueryOutcome(committed, {}, PyNone, TRUE)
       ELSE QueryOutcome(after, {},
                IF RowCount(before, stmt) = 0 THEN PyNone ELSE PyInt(RowCount(before, stmt)),
                FALSE)

\* execute_query (lines 198-211).  fault: "execute" when cursor.execute raises (the
\* statement changes nothing), "commit" when conn.commit raises (the statement's
\* changes are in the open transaction); either way the except branch rolls the
\* transaction back and returns None.
execute_query(committed, uncommitted, stmt, fault) ==
    LET before == IF uncommitted = {} THEN committed ELSE CHOOSE i \in uncommitted : TRUE
        after == Executed(before, stmt)
    IN IF fault \in {"execute", "commit"} THEN QueryOutcome(committed, {}, PyNone, TRUE)
       ELSE QueryOutcome(after, {}, PyInt(RowCount(before, stmt)), FALSE)

\* what the connection of session s reads
View(s) == IF pending[s] = {} THEN db ELSE CHOOSE i \in pending[s] : TRUE

ReadError == <<"error", "read_error", 0>>

ExecError == <<"error", "exec_error", 0>>

\* the messages of a call: the st.error of a failed call, or none
ErrorIf(failed, message) == IF failed THEN <<message>> ELSE <<>>

Images ==
    {[groups |-> g, assignments |-> a, settings |-> st] :
        g \in SUBSET GroupIds, a \in SUBSET (UserIds \X GroupIds),
        st \in {<<>>, <<<<"k1", "v1">>>>, <<<<"k1", "v1">>, <<"k2", "v1">>>>}}

InitDb ==
    /\ environ = NoEnv
    /\ PathParked
    /\ ConnParked
    /\ ManifestParked
    /\ CmdParked
    /\ CreateParked
    /\ db \in {i \in Images : \A a \in i.assignments : a[2] \in i.groups}
    /\ pending = [s \in Sessions |-> {}]
    /\ pc = [s \in Sessions |-> "idle"]
    /\ act = [s \in Sessions |-> "none"]
    /\ sel = [s \in Sessions |-> NoSelection]
    /\ df = [s \in Sessions |-> Unset]
    /\ res1 = [s \in Sessions |-> Unset]
    /\ res = [s \in Sessions |-> Unset]
    /\ msgs = [s \in Sessions |-> <<>>]

\* A run starts.  df holds what the handler goes on to use of its read: the table
\* shown on the Database Tables page, check_df of Create Setting.
StartRun(s, handler, selection, read, shown, next) ==
    /\ act' = [act EXCEPT ![s] = handler]
    /\ sel' = [sel EXCEPT ![s] = selection]
    /\ df' = [df EXCEPT ![s] = read]
    /\ res1' = [res1 EXCEPT ![s] = Unset]
    /\ res' = [res EXCEPT ![s] = Unset]
    /\ msgs' = [msgs EXCEPT ![s] = shown]
    /\ pc' = [pc EXCEPT ![s] = next]

\* Database Tables page (lines 383-440): the selected table is read with the row
\* limit the operator entered.
ViewTable(s) ==
    /\ pc[s] = "idle"
    /\ \E table \in TableNames, limit \in Limits, fails \in BOOLEAN :
          LET r == get_table_data(View(s), table, limit, "", fails)
              read == r.value
          IN
          StartRun(s, "view_table", [id |-> table, val |-> "", limit |-> limit], read,
                   ErrorIf(r.error, ReadError) \o
                       (IF HasRows(read) THEN <<<<"write", "data", Len(read.rows)>>>>
                        ELSE IF ~IsNone(read) THEN <<<<"info", "table_empty", 0>>>>
                        ELSE <<>>),
                   "done")
    /\ UNCHANGED <<db, pending>>
    /\ UNCHANGED besidesDb

\* Credit Groups page, Delete pressed on a row (lines 449-514): the groups are read,
\* and the button of one of the rows shown is the pressed one.
ClickDeleteGroup(s) ==
    /\ pc[s] = "idle"
    /\ \E fails \in BOOLEAN :
          LET r == get_table_data(View(s), "token_tracking_credit_group", PageLimit, "", fails)
              read == r.value
          IN IF HasRows(read)
             THEN \E idx \in 1..Len(read.rows) :
                     StartRun(s, "delete_group",
                              [id |-> read.rows[idx], val |-> "", limit |-> PageLimit],
                              Unset, <<>>, "delete_assignments")
             ELSE StartRun(s, "delete_group", NoSelection, Unset,
                           ErrorIf(r.error, ReadError) \o <<<<"info", "no_groups", 0>>>>,
                           "done")
    /\ UNCHANGED <<db, pending>>
    /\ UNCHANGED besidesDb

\* lines 515-519: the first statement of the cascade
DeleteAssignments(s) ==
    /\ pc[s] = "delete_assignments"
    /\ \E fault \in ExecFaults :
          LET r == execute_query(db, pending[s], DeleteAssignmentsOf(sel[s].id), fault) IN
          /\ db' = r.db
          /\ pending' = [pending EXCEPT ![s] = r.pending]
          /\ res1' = [res1 EXCEPT ![s] = r.result]
          /\ msgs' = [msgs EXCEPT ![s] = @ \o ErrorIf(r.error, ExecError)]
    /\ pc' = [pc EXCEPT ![s] = "delete_group"]
    /\ UNCHANGED <<act, sel, df, res>>
    /\ UNCHANGED besidesDb

DeleteReportAnyResult(assignments_result, result) ==
    IF ~IsNone(result)
    THEN LET assignments_count ==
                 IF ~IsNone(assignments_result) THEN assignments_result.v ELSE 0
         IN IF assignments_count > 0
            THEN <<<<"success", "group_deleted_removed", assignments_count>>>>
            ELSE <<<<"success", "group_deleted", 0>>>>
    ELSE <<>>

\* lines 527-541: what the Delete handler reports
DeleteReport(assignments_result, result) ==
    IF ~IsNone(result) /\ result.v > 0
    THEN LET assignments_count ==
                 IF ~IsNone(assignments_result) THEN assignments_result.v ELSE 0
         IN IF assignments_count > 0
            THEN <<<<"success", "group_deleted_removed", assignments_count>>>>
            ELSE <<<<"success", "group_deleted", 0>>>>
    ELSE IF ~IsNone(result) /\ result.v = 0
    THEN <<<<"warning", "no_rows_deleted", 0>>>>
    ELSE <<>>

\* lines 521-541: the second statement of the cascade, and the report
DeleteGroupRow(s) ==
    /\ pc[s] = "delete_group"
    /\ \E fault \in ExecFaults :
          LET r == execute_query(db, pending[s], DeleteGroup(sel[s].id), fault) IN
          /\ db' = r.db
          /\ pending' = [pending EXCEPT ![s] = r.pending]
          /\ res' = [res EXCEPT ![s] = r.result]
          /\ msgs' = [msgs EXCEPT ![s] =
                         @ \o ErrorIf(r.error, ExecError) \o DeleteReport(res1[s], r.result)]
    /\ pc' = [pc EXCEPT ![s] = "done"]
    /\ UNCHANGED <<act, sel, df, res1>>
    /\ UNCHANGED besidesDb

\* Base Settings page, Update or Delete submitted on a row (lines 942-966): the
\* settings are read, and the form of one of the rows shown is the submitted one.
SubmitSetting(s) ==
    /\ pc[s] = "idle"
    /\ \E fails \in BOOLEAN, button \in {"update_setting", "delete_setting"} :
          LET r == get_table_data(View(s), "token_tracking_base_settings", PageLimit, "", fails)
              read == r.value
          IN IF HasRows(read)
             THEN \E idx \in 1..Len(read.rows), new_value \in SettingValues :
                     StartRun(s, button,
                              [id |-> read.rows[idx][1],
                               val |-> IF button = "update_setting" THEN new_value ELSE "",
                               limit |-> PageLimit],
                              Unset, <<>>, button)
             ELSE StartRun(s, button, NoSelection, Unset,
                           ErrorIf(r.error, ReadError) \o <<<<"info", "no_settings", 0>>>>,
                           "done")
    /\ UNCHANGED <<db, pending>>
    /\ UNCHANGED besidesDb

\* lines 973-977: what the Update handler reports
UpdateReport(result, key) ==
    IF ~IsNone(result) /\ result.v > 0 THEN <<<<"success", "setting_updated", 0>>>>
    ELSE IF ~IsNone(result) /\ result.v = 0 THEN <<<<"warning", "no_rows_updated", 0>>>>
    ELSE <<>>

\* lines 967-977
ExecUpdateSetting(s) ==
    /\ pc[s] = "update_setting"
    /\ \E fault \in ExecFaults :
          LET r == execute_query(db, pending[s], UpdateSetting(sel[s].id, sel[s].val), fault) IN
          /\ db' = r.db
          /\ pending' = [pending EXCEPT ![s] = r.pending]
          /\ res' = [res EXCEPT ![s] = r.result]
          /\ msgs' = [msgs EXCEPT ![s] =
                         @ \o ErrorIf(r.error, ExecError) \o UpdateReport(r.result, sel[s].id)]
    /\ pc' = [pc EXCEPT ![s] = "done"]
    /\ UNCHANGED <<act, sel, df, res1>>
    /\ UNCHANGED besidesDb

\* lines 987-994
ExecDeleteSetting(s) ==
    /\ pc[s] = "delete_setting"
    /\ \E fault \in ExecFaults :
          LET r == execute_query(db, pending[s], DeleteSetting(sel[s].id), fault) IN
          /\ db' = r.db
          /\ pending' = [pending EXCEPT ![s] = r.pending]
          /\ res' = [res EXCEPT ![s] = r.result]
          /\ msgs' = [msgs EXCEPT ![s] =
                         @ \o ErrorIf(r.error, ExecError) \o
                         (IF ~IsNone(r.result) /\ r.result.v > 0
                          THEN <<<<"success", "setting_deleted", 0>>>>
                          ELSE <<<<"warning", "could_not_delete", 0>>>>)]
    /\ pc' = [pc EXCEPT ![s] = "done"]
    /\ UNCHANGED <<act, sel, df, res1>>
    /\ UNCHANGED besidesDb

\* Base Settings page, Create Setting submitted (lines 1012-1031): the key is looked
\* up first, and the row is inserted unless the lookup returned rows.
SubmitCreateSetting(s) ==
    /\ pc[s] = "idle"
    /\ \E new_key \in SettingKeys \cup {"", QuoteKey}, new_value \in SettingValues,
          fails \in BOOLEAN :
          /\ new_key = QuoteKey => fails
          /\ IF new_key = ""
             THEN StartRun(s, "create_setting", [id |-> "", val |-> new_value, limit |-> 0],
                           Unset, <<<<"error", "key_required", 0>>>>, "done")
             ELSE LET r == get_table_data(View(s), "token_tracking_base_settings",
                                          DefaultLimit, new_key, fails)
                      check_df == r.value
                  IN StartRun(s, "create_setting",
                              [id |-> new_key, val |-> new_value, limit |-> DefaultLimit],
                              check_df,
                              ErrorIf(r.error, ReadError) \o
                                  ErrorIf(HasRows(check_df), <<"error", "already_exists", 0>>),
                              IF HasRows(check_df) THEN "done" ELSE "insert_setting")
    /\ UNCHANGED <<db, pending>>
    /\ UNCHANGED besidesDb

\* lines 1023-1029
ExecInsertSetting(s) ==
    /\ pc[s] = "insert_setting"
    /\ Len(db.settings) < MaxSettings
    /\ \E fault \in ExecFaults :
          LET r == execute_query(db, pending[s], InsertSetting(sel[s].id, sel[s].val), fault) IN
          /\ db' = r.db
          /\ pending' = [pending EXCEPT ![s] = r.pending]
          /\ res' = [res EXCEPT ![s] = r.result]
          /\ msgs' = [msgs EXCEPT ![s] =
                         @ \o ErrorIf(r.error, ExecError) \o
                         (IF ~IsNone(r.result) THEN <<<<"success", "setting_created", 0>>>>
                          ELSE <<>>)]
    /\ pc' = [pc EXCEPT ![s] = "done"]
    /\ UNCHANGED <<act, sel, df, res1>>
    /\ UNCHANGED besidesDb

\* The run is over (st.rerun() or the end of the script): its locals are gone.
EndRun(s) ==
    /\ pc[s] = "done"
    /\ pc' = [pc EXCEPT ![s] = "idle"]
    /\ act' = [act EXCEPT ![s] = "none"]
    /\ sel' = [sel EXCEPT ![s] = NoSelection]
    /\ df' = [df EXCEPT ![s] = Unset]
    /\ res1' = [res1 EXCEPT ![s] = Unset]
    /\ res' = [res EXCEPT ![s] = Unset]
    /\ msgs' = [msgs EXCEPT ![s] = <<>>]
    /\ UNCHANGED <<db, pending>>
    /\ UNCHANGED besidesDb

\* The statements a session's handlers issue, each a transaction of its own
Statements ==
    {DeleteAssignmentsOf(g) : g \in GroupIds} \cup {DeleteGroup(g) : g \in GroupIds}
        \cup {DeleteSetting(k) : k \in SettingKeys}
        \cup {UpdateSetting(k, v) : k \in SettingKeys, v \in SettingValues}
        \cup {InsertSetting(k, v) : k \in SettingKeys, v \in SettingValues}

\* Another session, seen from the database: one of its execute_query calls commits.
\* Its own locals play no part in what the first session reads and reports.  A run
\* that has issued its last statement ends before the next commit is looked at: the
\* end of a run reads nothing, so the order of the two makes no difference.
OtherSessionCommits(s) ==
    /\ pc[s] = "idle"
    /\ \A o \in Sessions : pc[o] # "done"
    /\ \E stmt \in Statements :
          /\ stmt.op = "insert_setting" => Len(db.settings) < MaxSettings
          /\ LET r == execute_query(db, pending[s], stmt, "none") IN
             /\ db' = r.db
             /\ pending' = [pending EXCEPT ![s] = r.pending]
    /\ UNCHANGED <<pc, act, sel, df, res1, res, msgs>>
    /\ UNCHANGED besidesDb

\* the session whose runs are followed statement by statement, and the other one
Operator == "s1"

Other == "s2"

Handlers(s) ==
    \/ ViewTable(s)
    \/ ClickDeleteGroup(s)
    \/ DeleteAssignments(s)
    \/ DeleteGroupRow(s)
    \/ SubmitSetting(s)
    \/ ExecUpdateSetting(s)
    \/ ExecDeleteSetting(s)
    \/ SubmitCreateSetting(s)
    \/ ExecInsertSetting(s)
    \/ EndRun(s)

NextDb == Handlers(Operator) \/ OtherSessionCommits(Other)

(***************************************************************************)
(* Model Management: the editor of token_parity.json (lines 789-873).      *)
(* A JSON text is a sequence of tokens: the brackets, the braces, the      *)
(* comma, the number 1, and one token per member of an object, named by    *)
(* its key ("provider" stands for "provider": 1).  The texts of the model  *)
(* nest no array and no object inside an object or an entry.               *)
(***************************************************************************)
required_fields ==
    <<"provider", "id", "name", "input_cost_credits", "per_input_tokens",
      "output_cost_credits", "per_output_tokens">>

Punctuation == {"[", "]", "{", "}", ","}

Number == "1"

\* the values json.loads returns
JsonInt == [t |-> "int"]

JsonDict(keys) == [t |-> "dict", keys |-> keys]

JsonList(items) == [t |-> "list", items |-> items]

\* What a parse leaves: the value, or JSONDecodeError raised
Parsed(value) == [ok |-> TRUE, value |-> value]

JSONDecodeError == [ok |-> FALSE, value |-> JsonInt]

\* the index of the first token tok in toks, 0 when there is none
FirstIndex(toks, tok) ==
    IF \E i \in 1..Len(toks) : toks[i] = tok
    THEN CHOOSE i \in 1..Len(toks) : toks[i] = tok /\ \A j \in 1..(i - 1) : toks[j] # tok
    ELSE 0

\* the members of an object: keys separated by commas
RECURSIVE Members(_)
Members(toks) ==
    IF toks = <<>> \/ toks[1] \in Punctuation \cup {Number} THEN JSONDecodeError
    ELSE IF Len(toks) = 1 THEN Parsed(<<toks[1]>>)
    ELSE IF toks[2] # "," \/ Len(toks) = 2 THEN JSONDecodeError
    ELSE LET rest == Members(SubSeq(toks, 3, Len(toks)))
         IN IF rest.ok THEN Parsed(<<toks[1]>> \o rest.value) ELSE JSONDecodeError

\* an object, from its opening to its closing brace
ParseObject(toks) ==
    IF Len(toks) < 2 \/ toks[1] # "{" \/ toks[Len(toks)] # "}" THEN JSONDecodeError
    ELSE IF Len(toks) = 2 THEN Parsed(JsonDict(<<>>))
    ELSE LET members == Members(SubSeq(toks, 2, Len(toks) - 1))
         IN IF members.ok THEN Parsed(JsonDict(members.value)) ELSE JSONDecodeError

\* the elements of an array: numbers and objects separated by commas
RECURSIVE Elements(_)
Elements(toks) ==
    IF toks = <<>> THEN JSONDecodeError
    ELSE LET used == IF toks[1] = Number THEN 1
                     ELSE IF toks[1] = "{" THEN FirstIndex(toks, "}")
                     ELSE 0
             item == IF used = 0 THEN JSONDecodeError
                     ELSE IF used = 1 THEN Parsed(JsonInt)
                     ELSE ParseObject(SubSeq(toks, 1, used))
         IN IF ~item.ok THEN JSONDecodeError
            ELSE IF used = Len(toks) THEN Parsed(<<item.value>>)
            ELSE IF toks[used + 1] # "," \/ used + 1 = Len(toks) THEN JSONDecodeError
            ELSE LET rest == Elements(SubSeq(toks, used + 2, Len(toks)))
                 IN IF rest.ok THEN Parsed(<<item.value>> \o rest.value)
                    ELSE JSONDecodeError

\* json.loads
json_loads(text) ==
    IF text = <<>> THEN JSONDecodeError
    ELSE IF text = <<Number>> THEN Parsed(JsonInt)
    ELSE IF text[1] = "{" THEN ParseObject(text)
    ELSE IF text[1] = "[" /\ Len(text) >= 2 /\ text[Len(text)] = "]"
    THEN IF Len(text) = 2 THEN Parsed(JsonList(<<>>))
         ELSE LET elements == Elements(SubSeq(text, 2, Len(text) - 1))
              IN IF elements.ok THEN Parsed(JsonList(elements.value)) ELSE JSONDecodeError
    ELSE JSONDecodeError

\* texts joined by commas
RECURSIVE Join(_)
Join(parts) ==
    IF parts = <<>> THEN <<>>
    ELSE IF Len(parts) = 1 THEN parts[1]
    ELSE parts[1] \o <<",">> \o Join(Tail(parts))

ObjectText(keys) == <<"{">> \o Join([i \in 1..Len(keys) |-> <<keys[i]>>]) \o <<"}">>

ArrayText(entries) == <<"[">> \o Join(entries) \o <<"]">>

EntryText(value) == IF value.t = "dict" THEN ObjectText(value.keys) ELSE <<Number>>

\* json.dumps
json_dumps(value) ==
    IF value.t = "list"
    THEN ArrayText([i \in 1..Len(value.items) |-> EntryText(value.items[i])])
    ELSE EntryText(value)

\* field in model
Has(model, field) == \E i \in 1..Len(model.keys) : model.keys[i] = field

\* the required fields the entry lacks, in the order the loop looks for them
MissingFields(model) == SelectSeq(required_fields, LAMBDA field : ~Has(model, field))

RECURSIVE CheckFirstModelOnly(_, _)
CheckFirstModelOnly(parsed_json, i) ==
    IF i > Len(parsed_json.items) THEN <<>>
    ELSE LET model == parsed_json.items[i] IN
         IF model.t # "dict" THEN <<<<"error", "must_be_object", i - 1, "">>>>
         ELSE IF MissingFields(model) # <<>>
         THEN <<<<"error", "missing_field", i - 1, MissingFields(model)[1]>>>>
         ELSE <<>>

\* The loop of lines 843-856 from entry i on (enumerate counts from 0): the st.error
\* of the first offending entry, after which the loop is left; nothing when every
\* entry passes (valid stays True).
RECURSIVE CheckModels(_, _)
CheckModels(parsed_json, i) ==
    IF i > Len(parsed_json.items) THEN <<>>
    ELSE LET model == parsed_json.items[i] IN
         IF model.t # "dict" THEN <<<<"error", "must_be_object", i - 1, "">>>>
         ELSE IF MissingFields(model) # <<>>
         THEN <<<<"error", "missing_field", i - 1, MissingFields(model)[1]>>>>
         ELSE CheckModels(parsed_json, i + 1)

\* Lines 794-802: the page reads the file; a file that cannot be parsed is reported
\* and shown as an empty array.
ReadManifest(content) ==
    LET current == json_loads(content)
    IN IF current.ok THEN [data |-> current.value, shown |-> <<>>]
       ELSE [data |-> JsonList(<<>>), shown |-> <<<<"error", "read_error", 0, "">>>>]

InvalidJson == <<"error", "invalid_json", 0, "">>

FileSaved == <<"success", "file_saved", 0, "">>

PermissionDenied == <<"error", "permission_denied", 0, "">>

SaveError == <<"error", "save_error", 0, "">>

\* open(token_parity_path, "w") and f.write: done; PermissionError from open; another
\* exception from open; an exception from the write, after open emptied the file
WriteOutcomes == {"ok", "PermissionError", "open_error", "write_error"}

\* the entries of the texts an operator submits
Complete == ObjectText(required_fields)

Without(field) == ObjectText(SelectSeq(required_fields, LAMBDA f : f # field))

Offending == {<<Number>>} \cup {Without(required_fields[i]) : i \in 1..Len(required_fields)}

\* the arrays of the model have at most this many entries
MaxEntries == 2

Completes(n) == [i \in 1..n |-> Complete]

\* Arrays of complete entries, and arrays with a first offending entry at any
\* position, followed by entries that are complete or not objects.
Arrays ==
    {Completes(n) : n \in 0..MaxEntries} \cup
    {a \in {Completes(p) \o <<e>> \o s :
                p \in 0..(MaxEntries - 1), e \in Offending,
                s \in UNION {[1..k -> {Complete, <<Number>>}] : k \in 0..(MaxEntries - 1)}} :
        Len(a) <= MaxEntries}

\* texts json.loads rejects: empty, unclosed, trailing comma, missing comma, a comma
\* for a member
Broken ==
    {<<>>,
     <<"[">> \o Complete,
     <<"[">> \o Complete \o <<",", "]">>,
     <<"[">> \o Complete \o Complete \o <<"]">>,
     <<"[", "{", "provider", ",", "}", "]">>}

\* what an operator leaves in the text area: arrays, a number, an object, broken text
Texts == {ArrayText(a) : a \in Arrays} \cup {<<Number>>, Complete} \cup Broken

\* the file the editor finds: an empty array, one model, an empty file
InitManifest ==
    /\ environ = NoEnv
    /\ PathParked
    /\ ConnParked
    /\ DbParked
    /\ CmdParked
    /\ CreateParked
    /\ token_parity \in {ArrayText(<<>>), ArrayText(<<Complete>>), <<>>}
    /\ edited_content = json_dumps(ReadManifest(token_parity).data)
    /\ manifest_msgs = ReadManifest(token_parity).shown

\* The operator changes the text area: a run in which no button is pressed.
EditText ==
    /\ \E text \in Texts : edited_content' = text
    /\ manifest_msgs' = ReadManifest(token_parity).shown
    /\ UNCHANGED token_parity
    /\ UNCHANGED besidesManifest

\* Validate JSON pressed (lines 815-820)
ValidateJson ==
    /\ manifest_msgs' = ReadManifest(token_parity).shown \o
                            (IF json_loads(edited_content).ok
                             THEN <<<<"success", "json_valid", 0, "">>>>
                             ELSE <<InvalidJson>>)
    /\ UNCHANGED <<token_parity, edited_content>>
    /\ UNCHANGED besidesManifest

\* Save Changes pressed (lines 823-873)
SaveChanges ==
    /\ \E outcome \in WriteOutcomes :
          LET rendered == ReadManifest(token_parity).shown
              parsed_json == json_loads(edited_content)
          IN IF ~parsed_json.ok
             THEN /\ manifest_msgs' = rendered \o <<InvalidJson>>
                  /\ UNCHANGED token_parity
             ELSE IF parsed_json.value.t # "list"
             THEN /\ manifest_msgs' = rendered \o <<<<"error", "must_be_array", 0, "">>>>
                  /\ UNCHANGED token_parity
             ELSE LET errors == CheckModels(parsed_json.value, 1) IN
                  IF errors # <<>>
                  THEN /\ manifest_msgs' = rendered \o errors
                       /\ UNCHANGED token_parity
                  ELSE IF outcome = "ok"
                  THEN /\ token_parity' = edited_content
                       /\ manifest_msgs' = rendered \o <<FileSaved>>
                  ELSE IF outcome = "PermissionError"
                  THEN /\ manifest_msgs' = rendered \o <<PermissionDenied>>
                       /\ UNCHANGED token_parity
                  ELSE IF outcome = "open_error"
                  THEN /\ manifest_msgs' = rendered \o <<SaveError>>
                       /\ UNCHANGED token_parity
                  ELSE /\ token_parity' = <<>>
                       /\ manifest_msgs' = rendered \o <<SaveError>>
    /\ UNCHANGED edited_content
    /\ UNCHANGED besidesManifest

NextManifest == EditText \/ ValidateJson \/ SaveChanges

(***************************************************************************)
(* run_token_tracking_command (lines 296-319) and the four handlers that   *)
(* call it.                                                                *)
(***************************************************************************)
\* backend_dirs, in the order they are tried
backend_dirs == <<"/app/backend", "/src/backend">>

\* What subprocess.run can come to: the child ran to its end, the child was killed
\* at the timeout, subprocess.run raised something else; os.chdir raised before it.
Exited(code, out, err) == [kind |-> "exited", returncode |-> code, stdout |-> out, stderr |-> err]

TimeoutExpired == [kind |-> "TimeoutExpired", returncode |-> 0, stdout |-> "", stderr |-> ""]

RunRaises(text) == [kind |-> "run_error", returncode |-> 0, stdout |-> "", stderr |-> text]

ChdirRaises(text) == [kind |-> "chdir_error", returncode |-> 0, stdout |-> "", stderr |-> text]

\* exit statuses of a child: success, failures, killed by a signal
ExitCodes == {0, 1, 2, -9}

\* what a child writes to stdout and to stderr
StdoutTexts == {"", "created"}

StderrTexts == {"", "no such group", "Command timed out"}

ExceptionTexts == {"[Errno 13] Permission denied"}

ChildOutcomes ==
    {Exited(code, out, err) : code \in ExitCodes, out \in StdoutTexts, err \in StderrTexts}
        \cup {TimeoutExpired}
        \cup {RunRaises(text) : text \in ExceptionTexts}
        \cup {ChdirRaises(text) : text \in ExceptionTexts}

\* return stdout, stderr, returncode
Returns(out, err, code) == [raised |-> FALSE, stdout |-> out, stderr |-> err, returncode |-> code]

\* an exception leaves the function
Propagates(text) == [raised |-> TRUE, stdout |-> "", stderr |-> text, returncode |-> 0]

\* the directory the loop of lines 307-310 changes to, dir when none exists
ChosenDir(dirs, dir) ==
    IF backend_dirs[1] \in dirs THEN backend_dirs[1]
    ELSE IF backend_dirs[2] \in dirs THEN backend_dirs[2]
    ELSE dir

\* What a call leaves: the result, the working directory, and the DATABASE_URL the
\* child was started with (<<>> when subprocess.run was not reached).
CallOutcome(result, dir, url) == [result |-> result, cwd |-> dir, child_env |-> url]

run_token_tracking_command_uncaught(env, files, dirs, dir, outcome) ==
    LET path == get_database_path(env, files)[1]
        url == SqlitePrefix \o path
    IN IF outcome.kind = "chdir_error"
       THEN CallOutcome(Propagates(outcome.stderr), dir, <<>>)
       ELSE IF outcome.kind = "exited"
       THEN CallOutcome(Returns(outcome.stdout, outcome.stderr, outcome.returncode),
                        ChosenDir(dirs, dir), url)
       ELSE IF outcome.kind = "TimeoutExpired"
       THEN CallOutcome(Returns("", "Command timed out", 1), ChosenDir(dirs, dir), url)
       ELSE CallOutcome(Propagates(outcome.stderr), ChosenDir(dirs, dir), url)

\* run_token_tracking_command (lines 296-319)
run_token_tracking_command(env, files, dirs, dir, outcome) ==
    LET path == get_database_path(env, files)[1]
        url == SqlitePrefix \o path
    IN IF outcome.kind = "chdir_error"
       THEN CallOutcome(Returns("", outcome.stderr, 1), dir, <<>>)
       ELSE IF outcome.kind = "exited"
       THEN CallOutcome(Returns(outcome.stdout, outcome.stderr, outcome.returncode),
                        ChosenDir(dirs, dir), url)
       ELSE IF outcome.kind = "TimeoutExpired"
       THEN CallOutcome(Returns("", "Command timed out", 1), ChosenDir(dirs, dir), url)
       ELSE CallOutcome(Returns("", outcome.stderr, 1), ChosenDir(dirs, dir), url)

\* the st.code calls of a failed command
CodeShown(handler, r) ==
    IF handler = "assign_user"
    THEN (IF r.stdout # "" THEN <<<<"code", "stdout">>>> ELSE <<>>)
             \o (IF r.stderr # "" THEN <<<<"code", "stderr">>>> ELSE <<>>)
    ELSE <<<<"code", "stdout_stderr">>>>

\* What the handler shows for the triple it got (lines 564-569, 711-718, 924-929,
\* 1049-1054); an exception that left the function ends the run with a traceback.
CommandReport(handler, r) ==
    IF r.raised THEN <<<<"exception", "traceback">>>>
    ELSE IF r.returncode = 0
    THEN <<<<"success", handler>>>>
             \o (IF handler = "initial_migration" THEN <<<<"code", "stdout">>>> ELSE <<>>)
    ELSE <<<<IF handler \in {"create_group", "assign_user"} THEN "error" ELSE "warning",
             handler>>>> \o CodeShown(handler, r)

\* A handler builds its command, calls run_token_tracking_command and reports.
CommandHandler(handler) ==
    /\ \E outcome \in ChildOutcomes :
          /\ outcome.kind = "chdir_error" => backend_dirs_found # {}
          /\ LET c == run_token_tracking_command(environ, existing, backend_dirs_found,
                                                 cwd, outcome)
             IN /\ child' = outcome
                /\ returned' = c.result
                /\ cwd' = c.cwd
                /\ child_env' = c.child_env
                /\ cmd_msgs' = CommandReport(handler, c.result)
    /\ caller' = handler
    /\ UNCHANGED backend_dirs_found

\* Credit Groups, Create Group submitted with a plan name (lines 558-569)
CreateGroup ==
    /\ CommandHandler("create_group")
    /\ UNCHANGED besidesCmd

\* User Assignments, Assign submitted (lines 707-718)
AssignUser ==
    /\ CommandHandler("assign_user")
    /\ UNCHANGED besidesCmd

\* Model Management, Run Model Migration pressed (lines 920-929)
RunModelMigration ==
    /\ CommandHandler("model_migration")
    /\ UNCHANGED besidesCmd

\* Migrations, Run Initial Migration pressed (lines 1045-1054)
RunInitialMigration ==
    /\ CommandHandler("initial_migration")
    /\ UNCHANGED besidesCmd

InitCmd ==
    /\ environ \in {NoEnv, [k \in {"DATABASE_URL"} |-> ExampleUrlA]}
    /\ existing \in {{}, {DockerPath2}}
    /\ path_pc = "returned"
    /\ db_path = DockerPath1
    /\ probed = <<>>
    /\ ConnParked
    /\ DbParked
    /\ ManifestParked
    /\ CreateParked
    /\ backend_dirs_found \in SUBSET {backend_dirs[1], backend_dirs[2]}
    /\ cwd = "/src"
    /\ child = NoChild
    /\ child_env = <<>>
    /\ returned = NotCalled
    /\ caller = "none"
    /\ cmd_msgs = <<>>

NextCmd == CreateGroup \/ AssignUser \/ RunModelMigration \/ RunInitialMigration

(***************************************************************************)
(* The Create New token_parity.json section of the Model Management page   *)
(* (lines 734-744 and 874-911), shown when the editor finds no file.       *)
(***************************************************************************)
File(content) == [exists |-> TRUE, content |-> content]

\* lines 735-744: the first backend directory whose token_parity.json exists, as its
\* index in backend_dirs; 0 is None
token_parity_path(files) ==
    IF \E i \in 1..Len(files) : files[i].exists
    THEN CHOOSE i \in 1..Len(files) :
             files[i].exists /\ \A j \in 1..(i - 1) : ~files[j].exists
    ELSE 0

\* the files when line 791 tests the path again: the file found may have been
\* removed since line 742
AtSecondTest(files, path, removed) ==
    IF path # 0 /\ removed THEN [files EXCEPT ![path] = NoFile] ELSE files

\* line 791: token_parity_path and token_parity_path.exists()
EditorShown(files, path) == path # 0 /\ files[path].exists

\* the value of the text area when it was not on the page before (lines 880-898)
DefaultContent == ArrayText(<<Complete>>)

NotFound == <<<<"warning", "not_found">>, <<"info", "expected_location">>>>

Editing == <<<<"info", "editing">>>>

FileCreated == <<"success", "file_created">>

CreateError == <<"error", "create_error">>

\* mkdir, open(token_parity_path, "w") and f.write: done; mkdir or open raised;
\* the write raised, after open created the file
CreateOutcomes == {"ok", "mkdir_error", "open_error", "write_error"}

\* lines 900-911: the handler of Create File
CreateFileHandler(files, path, content, outcome) ==
    IF ~json_loads(content).ok
    THEN [files |-> files, shown |-> <<CreateError>>]
    ELSE IF path = 0
    THEN [files |-> files, shown |-> <<>>]
    ELSE IF outcome = "ok"
    THEN [files |-> [files EXCEPT ![path] = File(content)], shown |-> <<FileCreated>>]
    ELSE IF outcome = "write_error"
    THEN [files |-> [files EXCEPT ![path] = File(<<>>)], shown |-> <<CreateError>>]
    ELSE [files |-> files, shown |-> <<CreateError>>]

InitCreate ==
    /\ environ = NoEnv
    /\ PathParked
    /\ ConnParked
    /\ DbParked
    /\ ManifestParked
    /\ CmdParked
    /\ manifest_files \in [1..Len(backend_dirs) -> {NoFile, File(DefaultContent)}]
    /\ new_json_content = <<>>
    /\ create_button = FALSE
    /\ create_msgs = <<>>

\* A run of the page in which Create File is not pressed: the operator opened the
\* page, or changed the text area.
ManifestPageRun ==
    /\ \E removed \in BOOLEAN, text \in Texts \cup {DefaultContent} :
          LET path == token_parity_path(manifest_files)
              files == AtSecondTest(manifest_files, path, removed)
          IN /\ manifest_files' = files
             /\ IF EditorShown(files, path)
                THEN /\ create_msgs' = Editing
                     /\ create_button' = FALSE
                     /\ new_json_content' = <<>>
                ELSE /\ create_msgs' = NotFound
                     /\ create_button' = TRUE
                     /\ new_json_content' = IF create_button THEN text ELSE DefaultContent
    /\ UNCHANGED besidesCreate

\* The run started by pressing Create File, which the last run rendered.
CreateFile ==
    /\ create_button
    /\ \E removed \in BOOLEAN, outcome \in CreateOutcomes :
          LET path == token_parity_path(manifest_files)
              files == AtSecondTest(manifest_files, path, removed)
          IN IF EditorShown(files, path)
             THEN /\ manifest_files' = files
                  /\ create_msgs' = Editing
                  /\ create_button' = FALSE
                  /\ new_json_content' = <<>>
             ELSE LET r == CreateFileHandler(files, path, new_json_content, outcome) IN
                  /\ manifest_files' = r.files
                  /\ create_msgs' = NotFound \o r.shown
                  /\ create_button' = TRUE
                  /\ UNCHANGED new_json_content
    /\ UNCHANGED besidesCreate

\* The deployment removes a manifest between two runs.
RemoveManifest ==
    /\ \E i \in 1..Len(manifest_files) :
          /\ manifest_files[i].exists
          /\ manifest_files' = [manifest_files EXCEPT ![i] = NoFile]
    /\ UNCHANGED <<new_json_content, create_button, create_msgs>>
    /\ UNCHANGED besidesCreate

\* The deployment puts a manifest in a backend directory between two runs.
DeployManifest ==
    /\ \E i \in 1..Len(manifest_files) :
          /\ ~manifest_files[i].exists
          /\ manifest_files' = [manifest_files EXCEPT ![i] = File(DefaultContent)]
    /\ UNCHANGED <<new_json_content, create_button, create_msgs>>
    /\ UNCHANGED besidesCreate

NextCreate == ManifestPageRun \/ CreateFile \/ RemoveManifest \/ DeployManifest

(***************************************************************************)
(* The specifications.  Each runs one part of the program and holds the    *)
(* state of the other parts still.                                         *)
(***************************************************************************)
SpecPath == InitPath /\ [][NextPath]_vars

\* The script runner starts every run that is due, and a run goes on to its end.
SpecConn ==
    InitConn /\ [][NextConn]_vars /\ WF_vars(LoginRun) /\ WF_vars(ConnectRun) /\ WF_vars(PageRun)

SpecDb == InitDb /\ [][NextDb]_vars

\* one session alone
SpecDbSingle == InitDb /\ [][Handlers(Operator)]_vars

\* two sessions, each running Create Setting statement by statement
NextTwoCreate ==
    \E s \in Sessions :
        \/ SubmitCreateSetting(s)
        \/ ExecInsertSetting(s)
        \/ EndRun(s)

SpecTwoCreate == InitDb /\ [][NextTwoCreate]_vars

\* two sessions, each running the delete of a credit group statement by statement
NextTwoDelete ==
    \E s \in Sessions :
        \/ ClickDeleteGroup(s)
        \/ DeleteAssignments(s)
        \/ DeleteGroupRow(s)
        \/ EndRun(s)

SpecTwoDelete == InitDb /\ [][NextTwoDelete]_vars

SpecManifest == InitManifest /\ [][NextManifest]_vars

SpecCmd == InitCmd /\ [][NextCmd]_vars

SpecCreate == InitCreate /\ [][NextCreate]_vars

HasPrefix(env) ==
    /\ "DATABASE_URL" \in DOMAIN env
    /\ \/ StartsWith(env["DATABASE_URL"], SqlitePrefix)
       \/ StartsWith(env["DATABASE_URL"], SqlcipherPrefix)

\* C1: with DATABASE_URL starting with "sqlite:///" or "sqlite+sqlcipher:///",
\* get_database_path returns the text after the prefix, with one "/" in front unless
\* it already starts with "/"; the result starts with "/", "sqlite:///a/b.db" gives
\* "/a/b.db", "sqlite+sqlcipher:///x/y.db" gives "/x/y.db", and no file is probed.
C1_UrlPath ==
    (path_pc = "returned" /\ HasPrefix(environ)) =>
        LET url == environ["DATABASE_URL"] IN
        /\ probed = <<>>
        /\ Len(db_path) >= 1 /\ db_path[1] = "/"
        /\ \E p \in {SqlitePrefix, SqlcipherPrefix} : \E t \in {SubSeq(url, k, Len(url)) : k \in 1..(Len(url) + 1)} :
              /\ url = p \o t
              /\ IF t # <<>> /\ t[1] = "/" THEN db_path = t ELSE db_path = <<"/">> \o t
        /\ (url = ExampleUrlA => db_path = ExamplePathA)
        /\ (url = ExampleUrlX => db_path = ExamplePathX)

C1_Witness ==
    /\ path_pc = "returned"
    /\ HasDatabaseUrl(environ)
    /\ environ["DATABASE_URL"] = ExampleUrlX
    /\ db_path = ExamplePathX
    /\ probed = <<>>

RetryCount == session_state["db_retry_count"]

Shown(level) == {e \in ui : e[1] = level}

\* a run of an authenticated session is due and the database file is missing
DueWithoutFile == run_pc = "start" /\ Authenticated(session_state) /\ ~db_file

\* the retry delay has passed since the last check of the session (line 115)
DelayPassed ==
    "db_last_check" \in DOMAIN session_state => now - session_state["db_last_check"] >= retry_delay

\* C2: with the database file missing, a run that waits shows an attempt number of at
\* most 15 and sleeps the one fixed delay of 2 seconds, no run sleeps longer; the run
\* after the 15th wait reports the permanent failure (an error, no connection, no
\* sleep); and unless the file appears, every run due once the retry delay has passed
\* leads to that report (or to the report that the directory cannot be created): the
\* step never blocks for good.
C2_BoundedRetry ==
    /\ [](slept \in {0, retry_delay})
    /\ [](<<"spinner", "waiting">> \in ui =>
            /\ slept = retry_delay
            /\ RetryCount \in 1..max_retries
            /\ conn = "None"
            /\ run_pc = "start")
    /\ [][(DueWithoutFile /\ <<"spinner", "waiting">> \in ui /\ ~db_file') =>
            IF RetryCount < max_retries
            THEN /\ <<"spinner", "waiting">> \in ui'
                 /\ session_state'["db_retry_count"] = RetryCount + 1
            ELSE /\ <<"error", "db_not_found">> \in ui'
                 /\ <<"spinner", "waiting">> \notin ui'
                 /\ conn' = "None"
                 /\ slept' = 0
                 /\ run_pc' = "page"
                 /\ open_conns' = open_conns]_vars
    /\ [](DueWithoutFile /\ <<"spinner", "waiting">> \in ui => DelayPassed)
    /\ ((DueWithoutFile /\ DelayPassed) ~>
            (db_file \/ <<"error", "db_not_found">> \in ui \/ <<"error", "mkdir_failed">> \in ui))

C2_Witness ==
    /\ <<"error", "db_not_found">> \in ui
    /\ RetryCount = max_retries
    /\ ~db_file
    /\ conn = "None"
    /\ run_pc = "idle"
    /\ now = StartTime + max_retries * retry_delay

\* C3: a run that finds the database file with no table in it (and meets no SQLite
\* error) returns no connection, leaves no connection open, shows a warning and no
\* error, and leaves db_retry_count at 0; a run returns a connection only when the
\* file holds at least one table.
C3_EmptyDatabase ==
    [][(run_pc = "start" /\ Authenticated(session_state) /\ db_tables' = db_tables) =>
         /\ (db_file /\ db_tables = 0 /\ <<"error", "sqlite_error">> \notin ui') =>
               /\ conn' = "None"
               /\ open_conns' = open_conns
               /\ <<"warning", "db_empty">> \in ui'
               /\ Shown("error")' = {}
               /\ session_state'["db_retry_count"] = 0
         /\ conn' = "conn" => (db_file /\ db_tables > 0)]_vars

C3_Witness ==
    /\ run_pc = "page"
    /\ db_file
    /\ db_tables = 0
    /\ <<"warning", "db_empty">> \in ui
    /\ <<"button", "check_again">> \in ui
    /\ conn = "None"
    /\ open_conns = 0
    /\ RetryCount = 0
    /\ now > StartTime

(***************************************************************************)
(* Reads and mutations of the tables.                                      *)
(***************************************************************************)
\* message m is on the page of session s
OnPage(s, m) == \E i \in 1..Len(msgs[s]) : msgs[s][i] = m

\* message m is the last one on the page of session s
LastShown(s, m) == msgs[s] # <<>> /\ msgs[s][Len(msgs[s])] = m

\* the call session s makes in this step took the except branch of execute_query
CallFailed(s) == Len(msgs'[s]) > Len(msgs[s]) /\ msgs'[s][Len(msgs[s]) + 1] = ExecError

\* the CreditGroupUser rows that reference group g
AssignmentsOf(image, g) == {a \in image.assignments : a[2] = g}

NoRowsUpdated == <<"warning", "no_rows_updated", 0>>

NoRowsDeleted == <<"warning", "no_rows_deleted", 0>>

\* C4: get_table_data returns an empty table, not None, when the SELECT succeeds
\* with no rows, and None exactly when the query fails (the read error is shown);
\* a successful result is the first rows of the table, never more than the limit
\* (the Database Tables page's limit, or the default 100 of Create Setting's lookup).
C4_EmptyOrFailed ==
    /\ [](\A s \in Sessions :
            pc[s] = "done" /\ act[s] = "view_table" =>
                /\ IsNone(df[s]) <=> OnPage(s, ReadError)
                /\ IsNone(df[s]) => msgs[s] = <<ReadError>>
                /\ ~IsNone(df[s]) =>
                      /\ df[s].t = "DataFrame"
                      /\ Len(df[s].rows) <= sel[s].limit
                /\ df[s] = PyDf(<<>>) => msgs[s] = <<<<"info", "table_empty", 0>>>>)
    /\ [](\A s \in Sessions :
            act[s] = "create_setting" /\ df[s] # Unset =>
                /\ IsNone(df[s]) <=> OnPage(s, ReadError)
                /\ ~IsNone(df[s]) => Len(df[s].rows) <= DefaultLimit)
    /\ [][\A s \in Sessions :
            pc[s] = "idle" /\ pc'[s] = "done" /\ act'[s] = "view_table"
                /\ ~(\E i \in 1..Len(msgs'[s]) : msgs'[s][i] = ReadError) =>
                LET all == Rows(db, sel'[s].id)
                    n == IF Len(all) < sel'[s].limit THEN Len(all) ELSE sel'[s].limit
                IN df'[s] = PyDf(SubSeq(all, 1, n))]_vars

\* an empty table was read and shown as empty, with nothing reported as an error
C4_Witness ==
    /\ pc[Operator] = "done" /\ act[Operator] = "view_table"
    /\ sel[Operator].id = "token_tracking_credit_group_user"
    /\ db.assignments = {} /\ db.groups # {}
    /\ df[Operator] = PyDf(<<>>)
    /\ msgs[Operator] = <<<<"info", "table_empty", 0>>>>

\* C5: a mutation that matches no row makes execute_query return 0, not None, and
\* leaves the tables unchanged; the Update handler of Base Settings and the Delete
\* handler of Credit Groups then show their 'no rows' warning and no error, while a
\* failed call shows the error and no such warning.
C5_NoRowMatched ==
    /\ [][\A s \in Sessions :
            /\ (pc[s] = "update_setting" /\ pc'[s] = "done" /\ ~CallFailed(s)
                    /\ Matched(db, UpdateSetting(sel[s].id, sel[s].val)) = {}) =>
                  /\ res'[s] = PyInt(0)
                  /\ db' = db
                  /\ msgs'[s] = <<NoRowsUpdated>>
            /\ (pc[s] = "delete_group" /\ pc'[s] = "done" /\ ~CallFailed(s)
                    /\ sel[s].id \notin db.groups) =>
                  /\ res'[s] = PyInt(0)
                  /\ db' = db
                  /\ msgs'[s] = msgs[s] \o <<NoRowsDeleted>>]_vars
    /\ [](\A s \in Sessions :
            pc[s] = "done" /\ act[s] \in {"update_setting", "delete_group"}
                /\ sel[s] # NoSelection =>
                LET warning == IF act[s] = "update_setting" THEN NoRowsUpdated
                               ELSE NoRowsDeleted
                IN /\ res[s] = PyInt(0) =>
                          /\ LastShown(s, warning)
                          /\ OnPage(s, ExecError) => IsNone(res1[s])
                   /\ IsNone(res[s]) => LastShown(s, ExecError) /\ ~OnPage(s, warning)
                   /\ OnPage(s, warning) <=> res[s] = PyInt(0))

\* a group deleted by the other session between the read and the Delete: 0 rows,
\* the warning, no error
C5_Witness ==
    /\ pc[Operator] = "done" /\ act[Operator] = "delete_group"
    /\ res1[Operator] = PyInt(0) /\ res[Operator] = PyInt(0)
    /\ sel[Operator].id \notin db.groups
    /\ msgs[Operator] = <<NoRowsDeleted>>

\* C6: a failing execute_query call returns None, shows the error, leaves no open
\* transaction and leaves the committed tables exactly as they were before the
\* call, whatever earlier calls committed; None is returned by failing calls only.
C6_Rollback ==
    /\ [][\A s \in Sessions :
            pc[s] \in {"delete_assignments", "delete_group", "update_setting",
                       "delete_setting", "insert_setting"} /\ pc'[s] # pc[s] =>
                LET result == IF pc[s] = "delete_assignments" THEN res1'[s] ELSE res'[s]
                IN /\ CallFailed(s) <=> IsNone(result)
                   /\ CallFailed(s) => db' = db /\ pending'[s] = {}]_vars
    /\ [](\A s \in Sessions : pending[s] = {})

\* a failed Update: the error is shown and the row keeps the value it had
C6_Witness ==
    /\ pc[Operator] = "done" /\ act[Operator] = "update_setting"
    /\ IsNone(res[Operator])
    /\ msgs[Operator] = <<ExecError>>
    /\ sel[Operator].val = "v2"
    /\ db.settings = <<<<"k1", "v1">>, <<"k2", "v1">>>>
    /\ pending[Operator] = {}

\* C7: when both statements of the Delete handler execute without error, the first
\* removes exactly the M assignment rows of g and returns M, the second removes
\* exactly the row of g; afterwards neither g nor an assignment of g exists, the
\* other groups, their assignments and the settings are as before, and the success
\* message carries M.
C7_CascadeDelete ==
    [][\A s \in Sessions :
          LET g == sel[s].id IN
          /\ (pc[s] = "delete_assignments" /\ pc'[s] = "delete_group"
                  /\ ~IsNone(res1'[s])) =>
                /\ res1'[s] = PyInt(Cardinality(AssignmentsOf(db, g)))
                /\ db'.assignments = db.assignments \ AssignmentsOf(db, g)
                /\ db'.groups = db.groups /\ db'.settings = db.settings
          /\ (pc[s] = "delete_group" /\ pc'[s] = "done"
                  /\ ~IsNone(res1[s]) /\ ~IsNone(res'[s])) =>
                /\ db'.groups = db.groups \ {g}
                /\ db'.assignments = db.assignments /\ db'.settings = db.settings
                /\ AssignmentsOf(db', g) = {}
                /\ g \in db.groups =>
                      /\ res'[s] = PyInt(1)
                      /\ msgs'[s] = IF res1[s].v > 0
                                    THEN <<<<"success", "group_deleted_removed", res1[s].v>>>>
                                    ELSE <<<<"success", "group_deleted", 0>>>>]_vars

\* g1 and its two assignments are gone, g2 and its assignment are still there
C7_Witness ==
    /\ pc[Operator] = "done" /\ act[Operator] = "delete_group"
    /\ sel[Operator].id = "g1"
    /\ res1[Operator] = PyInt(2) /\ res[Operator] = PyInt(1)
    /\ msgs[Operator] = <<<<"success", "group_deleted_removed", 2>>>>
    /\ db.groups = {"g2"}
    /\ db.assignments = {<<"u1", "g2">>}

\* C8: whenever the Delete handler removes the row of g, no assignment of g remains,
\* whether the first statement succeeded or failed.
C8_NoOrphans ==
    [][\A s \in Sessions :
          pc[s] = "delete_group" /\ pc'[s] = "done"
              /\ sel[s].id \in db.groups /\ sel[s].id \notin db'.groups =>
              AssignmentsOf(db', sel[s].id) = {}]_vars

\* C9: the two deletes are two transactions: the first is committed when it returns,
\* and a failure of the second leaves the tables as the first left them, so the
\* assignments of g stay removed while g is still present.
C9_TwoTransactions ==
    [][\A s \in Sessions :
          LET g == sel[s].id IN
          /\ (pc[s] = "delete_assignments" /\ pc'[s] = "delete_group"
                  /\ ~IsNone(res1'[s])) =>
                AssignmentsOf(db', g) = {} /\ pending'[s] = {}
          /\ (pc[s] = "delete_group" /\ pc'[s] = "done"
                  /\ ~IsNone(res1[s]) /\ IsNone(res'[s])) =>
                /\ AssignmentsOf(db', g) = {}
                /\ db'.assignments = db.assignments
                /\ g \in db.groups => g \in db'.groups]_vars

\* the assignments of g1 removed, g1 still present
C9_Witness ==
    /\ pc[Operator] = "done" /\ act[Operator] = "delete_group"
    /\ sel[Operator].id = "g1"
    /\ res1[Operator] = PyInt(2) /\ IsNone(res[Operator])
    /\ "g1" \in db.groups
    /\ AssignmentsOf(db, "g1") = {}
    /\ msgs[Operator] = <<ExecError>>

(***************************************************************************)
(* The manifest editor.                                                    *)
(***************************************************************************)
\* the text parses, is an array, and every entry is an object with the seven fields
Acceptable(text) ==
    LET parsed == json_loads(text) IN
    /\ parsed.ok
    /\ parsed.value.t = "list"
    /\ \A i \in 1..Len(parsed.value.items) :
          /\ parsed.value.items[i].t = "dict"
          /\ \A k \in 1..Len(required_fields) :
                Has(parsed.value.items[i], required_fields[k])

ManifestShown(m) == \E i \in 1..Len(manifest_msgs) : manifest_msgs[i] = m

\* C10: Save Changes opens the manifest file for writing only when the edited text
\* parses as JSON, is an array, and every entry is an object with all seven required
\* fields.  For any other text the run shows an error and none of the messages of a
\* write, and the file is unchanged, wherever the offending entry stands; a text
\* that is saved is the file's new content.
C10_SaveOnlyValid ==
    [][SaveChanges =>
          /\ ~Acceptable(edited_content) =>
                /\ token_parity' = token_parity
                /\ manifest_msgs'[Len(manifest_msgs')][1] = "error"
                /\ ~ManifestShown(FileSaved)'
                /\ ~ManifestShown(PermissionDenied)'
                /\ ~ManifestShown(SaveError)'
          /\ token_parity' # token_parity => Acceptable(edited_content)
          /\ ManifestShown(FileSaved)' =>
                Acceptable(edited_content) /\ token_parity' = edited_content]_vars

\* two entries, the second lacks the last required field: reported, nothing written
C10_Witness ==
    /\ edited_content = ArrayText(<<Complete, Without("per_output_tokens")>>)
    /\ manifest_msgs = <<<<"error", "missing_field", 1, "per_output_tokens">>>>
    /\ token_parity = ArrayText(<<Complete>>)

(***************************************************************************)
(* The external command.                                                   *)
(***************************************************************************)
\* what the call just made would have returned had the child been killed at the timeout
TimeoutValue ==
    run_token_tracking_command(environ, existing, backend_dirs_found, cwd,
                               TimeoutExpired).result

CmdShown(level) == \E i \in 1..Len(cmd_msgs) : cmd_msgs[i][1] = level

\* C11: the value returned for a timeout differs from every value returned for a
\* child that ran to its end with a non-zero exit status.
C11_TimeoutDistinct ==
    (caller # "none" /\ child.kind = "exited" /\ child.returncode # 0) =>
        returned # TimeoutValue

\* C12: run_token_tracking_command raises nothing: after every call the caller holds
\* a triple; the triple of a child that ran to its end is what the child wrote and
\* its exit status; the status is 0 only for a child that exited with 0, and the
\* handler shows its success message for exactly those calls.
C12_NeverRaises ==
    caller # "none" =>
        /\ ~returned.raised
        /\ returned.returncode = 0 => child.kind = "exited" /\ child.returncode = 0
        /\ child.kind = "exited" =>
              returned = Returns(child.stdout, child.stderr, child.returncode)
        /\ child.kind # "exited" => returned.returncode = 1 /\ returned.stdout = ""
        /\ CmdShown("success") <=> (child.kind = "exited" /\ child.returncode = 0)
        /\ ~CmdShown("exception")

\* subprocess.run raised: the handler got a triple with status 1 and reported a failure
C12_Witness ==
    /\ caller = "create_group"
    /\ child = RunRaises("[Errno 13] Permission denied")
    /\ returned = Returns("", "[Errno 13] Permission denied", 1)
    /\ cmd_msgs = <<<<"error", "create_group">>, <<"code", "stdout_stderr">>>>

(***************************************************************************)
(* Authentication and the retry budget of get_db_connection.               *)
(***************************************************************************)
\* a script run takes place in this step
RunStep == LoginRun \/ ConnectRun

\* C13: a session starts without the authenticated flag set; the flag becomes true
\* only in a run started by a login whose password is the configured one; once true
\* it stays true; a run that starts with the flag false opens no connection, returns
\* none, and never reaches the page body: it ends at the login form or in the rerun
\* of a successful login.
C13_AuthenticationGate ==
    /\ [][(~Authenticated(session_state) /\ Authenticated(session_state')) =>
            /\ run_pc = "start"
            /\ trigger.w = "login"
            /\ trigger.pw = correct_password(environ)]_vars
    /\ [][Authenticated(session_state) => Authenticated(session_state')]_vars
    /\ [][(RunStep /\ ~Authenticated(session_state)) =>
            /\ open_conns' = open_conns
            /\ conn' = "None"
            /\ run_pc' \in {"idle", "start"}
            /\ run_pc' = "start" => Authenticated(session_state')
            /\ <<"sidebar", "nav">> \notin ui'
            /\ <<"form", "login">> \in ui'
            /\ UNCHANGED <<db_file, db_dir, db_tables, now>>]_vars
    /\ [](~Authenticated(session_state) =>
            run_pc # "page" /\ conn = "None" /\ open_conns = 0)

\* a wrong password was submitted: the flag is false and the run ended at the form
C13_Witness ==
    /\ <<"error", "incorrect_password">> \in ui
    /\ "authenticated" \in DOMAIN session_state
    /\ ~session_state["authenticated"]
    /\ run_pc = "idle"
    /\ conn = "None"
    /\ open_conns = 0

\* session_state.db_retry_count and db_last_check, 0 before their initialisation
CountOf(ss) == IF "db_retry_count" \in DOMAIN ss THEN ss["db_retry_count"] ELSE 0

LastCheckOf(ss) == IF "db_last_check" \in DOMAIN ss THEN ss["db_last_check"] ELSE 0

\* C14: db_retry_count is always within 0..15; it grows only by one, and only in a
\* run that finds the file missing with at least the retry delay passed since
\* db_last_check and the counter below 15; that run ends in a rerun, returns no
\* connection and opens none.
C14_RetryCounter ==
    /\ [](CountOf(session_state) \in 0..max_retries)
    /\ [][CountOf(session_state') > CountOf(session_state) =>
            /\ CountOf(session_state') = CountOf(session_state) + 1
            /\ ConnectRun
            /\ ~db_file /\ ~db_file'
            /\ now - LastCheckOf(session_state) >= retry_delay
            /\ CountOf(session_state) < max_retries
            /\ run_pc' = "start" /\ trigger' = Load
            /\ conn' = "None"
            /\ open_conns' = open_conns]_vars

\* the first waiting run of a session
C14_Witness ==
    /\ CountOf(session_state) = 1
    /\ LastCheckOf(session_state) = StartTime
    /\ now = StartTime + retry_delay
    /\ <<"spinner", "waiting">> \in ui
    /\ run_pc = "start"
    /\ ~db_file
    /\ conn = "None"

\* C15: db_retry_count goes back to 0 only in a run that found the database file,
\* or in a run started by pressing Retry Connection; a run that finds the file
\* missing does not reset the counter on its own.
C15_ResetOnlyOnSuccess ==
    [][(CountOf(session_state) > 0 /\ CountOf(session_state') = 0) =>
          /\ ConnectRun
          /\ db_file \/ trigger.w = "retry_db"]_vars

\* C16: a run that finds the database file missing ends before sqlite3.connect: it
\* opens no connection and the file is still missing when the run ends.
C16_NoConnectWithoutFile ==
    [][(ConnectRun /\ ~db_file) =>
          /\ ~db_file'
          /\ open_conns' = open_conns
          /\ conn' = "None"
          /\ <<"warning", "db_empty">> \notin ui'
          /\ <<"error", "sqlite_error">> \notin ui']_vars

\* C17: a run started by pressing Retry Connection with the file still missing sets
\* db_retry_count and db_last_check to 0 and ends in a rerun, so that the next run
\* is attempt 1 of 15; and a run that finds the file with at least one table, and
\* meets no SQLite error, returns a connection and leaves the counter at 0, whatever
\* the counter was.
C17_Recoverable ==
    /\ [][(ConnectRun /\ trigger.w = "retry_db" /\ ~db_file) =>
            /\ CountOf(session_state') = 0
            /\ LastCheckOf(session_state') = 0
            /\ run_pc' = "start"
            /\ ~db_file']_vars
    /\ [][(ConnectRun /\ db_file /\ db_tables > 0
              /\ <<"error", "sqlite_error">> \notin ui') =>
            /\ conn' = "conn"
            /\ CountOf(session_state') = 0]_vars

(***************************************************************************)
(* Create Setting, and two sessions at once.                               *)
(***************************************************************************)
\* the rows of the settings table with key k
RowsWithKey(image, k) == {i \in 1..Len(image.settings) : image.settings[i][1] = k}

\* C18: with one session at work, Create Setting inserts a row for key k only when
\* no row with that key exists, also when the lookup ended in a query error; so the
\* settings table never holds two rows with the same key.
C18_NoDuplicateKey ==
    /\ [][\A s \in Sessions :
            (pc[s] = "insert_setting" /\ pc'[s] = "done"
                /\ Len(db'.settings) > Len(db.settings)) =>
                RowsWithKey(db, sel[s].id) = {}]_vars
    /\ [](\A k \in SettingKeys \cup {QuoteKey} : Cardinality(RowsWithKey(db, k)) <= 1)

\* C19: the lookup and the insert of Create Setting are two steps between which the
\* other session's statements commit: the lookup changes nothing and holds nothing,
\* and an insert that executes without error appends its row whatever rows the table
\* holds by then.  So two sessions that both looked k up before either inserted both
\* insert, and the table holds two rows with key k.
C19_CheckThenInsert ==
    /\ [][\A s \in Sessions :
            (pc[s] = "idle" /\ pc'[s] = "insert_setting") =>
                /\ db' = db /\ pending' = pending
                /\ ~HasRows(df'[s])]_vars
    /\ [][\A s \in Sessions :
            (pc[s] = "insert_setting" /\ pc'[s] = "done" /\ ~IsNone(res'[s])) =>
                /\ db'.settings = Append(db.settings, <<sel[s].id, sel[s].val>>)
                /\ res'[s] = PyInt(1)
                /\ LastShown(s, <<"success", "setting_created", 0>>)']_vars

\* both lookups of k1 returned the empty table, both inserts succeeded
C19_Witness ==
    /\ \A s \in Sessions :
          /\ pc[s] = "done" /\ act[s] = "create_setting"
          /\ sel[s].id = "k1"
          /\ df[s] = PyDf(<<>>)
          /\ res[s] = PyInt(1)
          /\ msgs[s] = <<<<"success", "setting_created", 0>>>>
    /\ Cardinality(RowsWithKey(db, "k1")) = 2

\* session s is in a run of the Delete handler on group g
Deleting(s, g) == act[s] = "delete_group" /\ sel[s].id = g /\ pc[s] # "idle"

\* the rowcount the assignments delete of session s returned for group g
Removed(s, g) ==
    IF Deleting(s, g) /\ res1[s].t = "int" THEN res1[s].v ELSE 0

\* the assignments group g had before the running Delete handlers touched it: those
\* still in the table and those the handlers' first statements have removed
Had(g) == Removed("s1", g) + Removed("s2", g) + Cardinality(AssignmentsOf(db, g))

\* the assignment count on the page of session s: the n of "Removed n user
\* assignment(s)", 0 when no message carries a count
ShownCount(s) ==
    IF \E n \in 1..Cardinality(UserIds) : OnPage(s, <<"success", "group_deleted_removed", n>>)
    THEN CHOOSE n \in 1..Cardinality(UserIds) : OnPage(s, <<"success", "group_deleted_removed", n>>)
    ELSE 0

ReportsDeleted(s) ==
    \/ OnPage(s, <<"success", "group_deleted", 0>>)
    \/ \E n \in 1..Cardinality(UserIds) : OnPage(s, <<"success", "group_deleted_removed", n>>)

\* both sessions pressed Delete on group g, and all four statements executed
BothDeleted(g) ==
    \A s \in Sessions :
        /\ Deleting(s, g) /\ pc[s] = "done"
        /\ ~IsNone(res1[s]) /\ ~IsNone(res[s])

\* C20 as stated: after two concurrent deletes of g whose statements all executed, g
\* and its assignments are gone, one session reports the deletion and the other the
\* zero-rows warning, and the counts on the two pages sum to the assignments g had.
C20_ReportedCountsSum ==
    \A g \in GroupIds :
        BothDeleted(g) =>
            /\ g \notin db.groups /\ AssignmentsOf(db, g) = {}
            /\ \E s, o \in Sessions :
                  /\ s # o
                  /\ ReportsDeleted(s) /\ ~OnPage(s, NoRowsDeleted)
                  /\ OnPage(o, NoRowsDeleted) /\ ~ReportsDeleted(o)
            /\ ShownCount("s1") + ShownCount("s2") = Had(g)

\* C20, amended: no step of a Delete handler changes Had(g), so the rowcounts the two
\* assignments deletes return sum to the assignments g had; after two concurrent
\* deletes of g whose statements all executed, g and its assignments are gone, the
\* session whose group delete removed the row reports the deletion with its own
\* rowcount (no count when that is 0), and the other shows only the zero-rows warning.
C20_ConcurrentDelete ==
    /\ [][\A g \in GroupIds :
            \/ Had(g)' = Had(g)
            \/ \E s \in Sessions : Deleting(s, g) /\ pc[s] = "done" /\ pc'[s] = "idle"]_vars
    /\ [][\A g \in GroupIds :
            BothDeleted(g)' =>
                /\ g \notin db'.groups /\ AssignmentsOf(db', g) = {}
                /\ Removed("s1", g)' + Removed("s2", g)' = Had(g)'
                /\ \E s, o \in Sessions :
                      /\ s # o
                      /\ res'[s] = PyInt(1) /\ res'[o] = PyInt(0)
                      /\ msgs'[s] = DeleteReport(res1'[s], res'[s])
                      /\ ReportsDeleted(s)'
                      /\ ShownCount(s)' = Removed(s, g)'
                      /\ msgs'[o] = <<NoRowsDeleted>>]_vars

\* s2 removed the two assignments of g1 and s1 the group row: s1 reports the deletion
\* without a count, s2 the warning
C20_Witness ==
    /\ BothDeleted("g1")
    /\ res1["s1"] = PyInt(0) /\ res["s1"] = PyInt(1)
    /\ res1["s2"] = PyInt(2) /\ res["s2"] = PyInt(0)
    /\ msgs["s1"] = <<<<"success", "group_deleted", 0>>>>
    /\ msgs["s2"] = <<NoRowsDeleted>>
    /\ "g1" \notin db.groups /\ AssignmentsOf(db, "g1") = {}

CreateShown(m) == \E i \in 1..Len(create_msgs) : create_msgs[i] = m

\* C21: when the lookup found no token_parity.json, Create File with content that
\* parses as JSON creates the manifest with that content and reports 'File created
\* successfully!'; content that does not parse is reported as an error and creates
\* nothing.
C21_CreateFile ==
    [][(CreateFile /\ token_parity_path(manifest_files) = 0) =>
          IF json_loads(new_json_content).ok
          THEN /\ \E i \in 1..Len(manifest_files') :
                      manifest_files'[i] = File(new_json_content)
               /\ CreateShown(FileCreated)'
          ELSE /\ manifest_files' = manifest_files
               /\ CreateShown(CreateError)'
               /\ ~CreateShown(FileCreated)']_vars

\* C22: a run that obtained a connection from get_db_connection closes it before it
\* ends, whether it runs to the end of the script or is ended by st.rerun(); so no
\* connection is open between two runs.
C22_ConnectionClosed ==
    [][(run_pc = "page" /\ run_pc' # "page" /\ conn = "conn") =>
          open_conns' = open_conns - 1]_vars

====
